---------------------------- MODULE Spec2Model ----------------------------
(***************************************************************************)
(* CRR binomial option pricing (YUSHANYAO.py): the European and American   *)
(* pricers and the lattice greeks delta, gamma and theta.                  *)
(*                                                                         *)
(* Arithmetic is exact: a number is a normalised fraction <<n, d>>, d > 0. *)
(* math.exp is computed exactly on the grid of arguments that are integer  *)
(* multiples of ln 2: the inputs sigma, r and Q are integers, sigma in     *)
(* units of ln2/sqrt(|dt|) and r, Q in units of ln2/|dt|, so that          *)
(* sigma*sqrt(dt), r*dt and Q*dt are k*ln2 and exp of them is 2^k.         *)
(***************************************************************************)
EXTENDS Integers, Sequences, FiniteSets, TLC

(* ------------------------------ bounds -------------------------------- *)
MaxM == 3

Spots   == {0, 1, 2}
Strikes == {0, 1, 3}
Sigmas  == {-1, 0, 1}
Rates   == {-1, 0, 1}
Yields  == {-1, 0, 1}
Times   == {-1, 0, 1}
StepCounts == (-2)..MaxM

(* ------------------------- exact arithmetic --------------------------- *)
Abs(x) == IF x < 0 THEN -x ELSE x

RECURSIVE GCD(_, _)
GCD(a, b) == IF b = 0 THEN a ELSE GCD(b, a % b)

Rat(n, d) ==
    LET g == GCD(Abs(n), Abs(d))
        s == IF d < 0 THEN -1 ELSE 1
    IN  <<(s * n) \div g, (s * d) \div g>>

Zero == <<0, 1>>
One  == <<1, 1>>
R(k) == <<k, 1>>

RAdd(a, b) ==
    LET g == GCD(a[2], b[2])
    IN  Rat(a[1] * (b[2] \div g) + b[1] * (a[2] \div g), (a[2] \div g) * b[2])
RNeg(a) == <<-a[1], a[2]>>
RSub(a, b) == RAdd(a, RNeg(b))
RMul(a, b) ==
    LET g1 == GCD(Abs(a[1]), b[2])
        g2 == GCD(Abs(b[1]), a[2])
    IN  <<(a[1] \div g1) * (b[1] \div g2), (a[2] \div g2) * (b[2] \div g1)>>
RInv(a) == IF a[1] < 0 THEN <<-a[2], -a[1]>> ELSE <<a[2], a[1]>>
RDiv(a, b) == RMul(a, RInv(b))
RLt(a, b) == a[1] * b[2] < b[1] * a[2]
RLeq(a, b) == a[1] * b[2] <= b[1] * a[2]
RMax(a, b) == IF RLt(a, b) THEN b ELSE a

RECURSIVE RPowN(_, _)
RPowN(a, k) == IF k = 0 THEN One ELSE RMul(a, RPowN(a, k - 1))
RPow(a, k) == IF k >= 0 THEN RPowN(a, k) ELSE RPowN(RInv(a), -k)

Exp2(k) == RPow(R(2), k)


(* ----------------------------- numpy ---------------------------------- *)
Idx(n) == (0..(n - 1)) \X (0..(n - 1))
Empty == [c \in {} |-> Zero]

\* np.arange(n): the vector 0, 1, ..., n-1
arange(n) == [k \in 0..(n - 1) |-> k]
\* np.resize(a, (n, n)): a repeated in row-major order
resize(a, len, n) == [c \in Idx(n) |-> a[(c[1] * n + c[2]) % len]]
\* np.transpose(m)
transpose(m, n) == [c \in Idx(n) |-> m[<<c[2], c[1]>>]]

(* ------------------ lines 29-35 / 68-75: the scalars ------------------ *)
Sgn(a) == IF a[1] < 0 THEN -1 ELSE IF a[1] = 0 THEN 0 ELSE 1

Calc_dt(p) == RDiv(R(p.T), R(p.M))
\* the arguments of math.exp, in units of ln 2
SigmaSqrtDt(p) == IF Sgn(Calc_dt(p)) = 0 THEN 0 ELSE p.sigma
RDt(p) == p.r * Sgn(Calc_dt(p))
QDt(p) == p.Q * Sgn(Calc_dt(p))

Calc_df(p)  == Exp2(-RDt(p))
Calc_inf(p) == Exp2(RDt(p))
Calc_u(p) == Exp2(SigmaSqrtDt(p))
Calc_d(p) == RDiv(One, Calc_u(p))
\* variant: the dividend yield left out of the drift
Calc_q_nodividend(p) == RDiv(RSub(Exp2(RDt(p)), Calc_d(p)),
                             RSub(Calc_u(p), Calc_d(p)))
Calc_q(p) == RDiv(RSub(Exp2(RDt(p) - QDt(p)), Calc_d(p)),
                  RSub(Calc_u(p), Calc_d(p)))

\* the exception raised before the lattices exist, "none" if there is none
Raises(p) ==
    IF p.M = 0 THEN "ZeroDivisionError"                     \* T / M
    ELSE IF Sgn(Calc_dt(p)) < 0 THEN "ValueError"           \* math.sqrt(dt)
    ELSE IF Calc_u(p) = Calc_d(p) THEN "ZeroDivisionError"  \* / (u - d)
    ELSE IF p.M + 1 < 0 THEN "ValueError"                   \* np.resize
    ELSE "none"

(* ------------------ lines 38-56 / 78-99: the lattices ----------------- *)
Calc_mu(p) == resize(arange(p.M + 1), p.M + 1, p.M + 1)
Calc_md(p) == transpose(Calc_mu(p), p.M + 1)
Calc_mus(p) == [c \in Idx(p.M + 1) |->
                  RPow(Calc_u(p), Calc_mu(p)[c] - Calc_md(p)[c])]
Calc_mds(p) == [c \in Idx(p.M + 1) |-> RPow(Calc_d(p), Calc_md(p)[c])]
Calc_S(p) == [c \in Idx(p.M + 1) |->
                RMul(RMul(R(p.S0), Calc_mus(p)[c]), Calc_mds(p)[c])]
Calc_mes(p) == [c \in Idx(p.M + 1) |->
                  RMul(R(p.S0), RPow(Calc_inf(p), Calc_mu(p)[c]))]

\* np.maximum(S - K, 0) or np.maximum(K - S, 0)
Payoff(p, s) ==
    IF p.otype = "call" THEN RMax(RSub(s, R(p.K)), Zero)
                        ELSE RMax(RSub(R(p.K), s), Zero)
Calc_V(p) == [c \in Idx(p.M + 1) |-> Payoff(p, Calc_S(p)[c])]
Calc_oreturn(p) ==
    [c \in Idx(p.M + 1) |->
        IF p.otype = "call" THEN RSub(Calc_mes(p)[c], R(p.K))
                            ELSE RSub(R(p.K), Calc_mes(p)[c])]

(* ------------- lines 59-62 / 102-108: one column of induction --------- *)
\* variant: the two branch weights exchanged
ovalue_swapped(v, qq, dff, M, zz, i) ==
    RMul(RAdd(RMul(RSub(One, qq), v[<<i, M - zz>>]),
              RMul(qq, v[<<i + 1, M - zz>>])), dff)
\* variant: the down branch read from the column being written
ovalue_padread(v, qq, dff, M, zz, i) ==
    RMul(RAdd(RMul(qq, v[<<i, M - zz>>]),
              RMul(RSub(One, qq), v[<<i + 1, M - zz - 1>>])), dff)
\* (q * V[0:M-z, M-z] + (1-q) * V[1:M-z+1, M-z]) * df, at row i
ovalue(v, qq, dff, M, zz, i) ==
    RMul(RAdd(RMul(qq, v[<<i, M - zz>>]),
              RMul(RSub(One, qq), v[<<i + 1, M - zz>>])), dff)

\* variant: the result assigned to column M-z instead of M-z-1
EuropeanColumn_offcolumn(v, qq, dff, M, zz) ==
    [c \in DOMAIN v |->
        IF c[2] = M - zz /\ c[1] \in 0..(M - zz - 1)
        THEN RMul(RAdd(RMul(qq, v[<<c[1], M - zz>>]),
                       RMul(RSub(One, qq), v[<<c[1] + 1, M - zz>>])), dff)
        ELSE v[c]]
\* V[0:M-z, M-z-1] = ...
EuropeanColumn(v, qq, dff, M, zz) ==
    [c \in DOMAIN v |->
        IF c[2] = M - zz - 1 /\ c[1] \in 0..(M - zz - 1)
        THEN ovalue(v, qq, dff, M, zz, c[1])
        ELSE v[c]]

\* variant: np.minimum in place of np.maximum
AmericanColumn_minimum(v, orr, qq, dff, M, zz) ==
    [c \in DOMAIN v |->
        IF c[2] = M - zz - 1 /\ c[1] \in 0..(M - zz - 1)
        THEN LET o == RMul(RAdd(RMul(qq, v[<<c[1], M - zz>>]),
                                RMul(RSub(One, qq), v[<<c[1] + 1, M - zz>>])), dff)
             IN  IF RLt(o, orr[c]) THEN o ELSE orr[c]
        ELSE v[c]]
\* variant: the exercise value taken at the source column M-z
AmericanColumn_sourcecolumn(v, orr, qq, dff, M, zz) ==
    [c \in DOMAIN v |->
        IF c[2] = M - zz - 1 /\ c[1] \in 0..(M - zz - 1)
        THEN RMax(RMul(RAdd(RMul(qq, v[<<c[1], M - zz>>]),
                            RMul(RSub(One, qq), v[<<c[1] + 1, M - zz>>])), dff),
                  orr[<<c[1], c[2] + 1>>])
        ELSE v[c]]
\* variant: the slice one row too long, the extra row taking the exercise value
AmericanColumn_extrarow(v, orr, qq, dff, M, zz) ==
    [c \in DOMAIN v |->
        IF c[2] = M - zz - 1 /\ c[1] \in 0..(M - zz - 1)
        THEN RMax(RMul(RAdd(RMul(qq, v[<<c[1], M - zz>>]),
                            RMul(RSub(One, qq), v[<<c[1] + 1, M - zz>>])), dff),
                  orr[c])
        ELSE IF c[2] = M - zz - 1 /\ c[1] = M - zz THEN orr[c]
        ELSE v[c]]
\* V[0:M-z, M-z-1] = np.maximum(ovalue, oreturn[0:M-z, M-z-1])
AmericanColumn(v, orr, qq, dff, M, zz) ==
    [c \in DOMAIN v |->
        IF c[2] = M - zz - 1 /\ c[1] \in 0..(M - zz - 1)
        THEN RMax(ovalue(v, qq, dff, M, zz, c[1]), orr[c])
        ELSE v[c]]

(* --------------------- the pricers as functions ----------------------- *)
RECURSIVE EuropeanLoop(_, _, _)
EuropeanLoop(v, p, zz) ==
    IF zz >= p.M THEN v
    ELSE EuropeanLoop(EuropeanColumn(v, Calc_q(p), Calc_df(p), p.M, zz), p, zz + 1)

RECURSIVE AmericanLoop(_, _, _)
AmericanLoop(v, p, zz) ==
    IF zz >= p.M THEN v
    ELSE AmericanLoop(AmericanColumn(v, Calc_oreturn(p), Calc_q(p), Calc_df(p),
                                     p.M, zz), p, zz + 1)

CRR_european_option_value(p) ==
    IF Raises(p) # "none" THEN [err |-> Raises(p), V |-> Empty, S |-> Empty]
    ELSE [err |-> "none", V |-> EuropeanLoop(Calc_V(p), p, 0), S |-> Calc_S(p)]

CRR_american_option_value(p) ==
    IF Raises(p) # "none" THEN [err |-> Raises(p), V |-> Empty, S |-> Empty]
    ELSE [err |-> "none", V |-> AmericanLoop(Calc_V(p), p, 0), S |-> Calc_S(p)]

(* ------------------ lines 112-124: the lattice greeks ----------------- *)
\* the side n of an n x n array
Dim(m) == CHOOSE n \in 0..(MaxM + 2) : DOMAIN m = Idx(n)
\* numpy raises IndexError for an index at or beyond the axis length
InRange(m, i, j) == i < Dim(m) /\ j < Dim(m)

Failed(nm) == [name |-> nm, outcome |-> "IndexError", val |-> Zero]
\* a numpy float64 division by zero yields inf or nan with a warning
Quot(nm, a, b) ==
    IF b = Zero THEN [name |-> nm, outcome |-> "nonfinite", val |-> Zero]
    ELSE [name |-> nm, outcome |-> "value", val |-> RDiv(a, b)]

calculate_delta(C, s) ==
    IF ~InRange(C, 0, 1) \/ ~InRange(C, 1, 1) THEN Failed("delta")
    ELSE Quot("delta", RSub(C[<<0, 1>>], C[<<1, 1>>]),
                       RSub(s[<<0, 1>>], s[<<1, 1>>]))

calculate_gamma(C, s) ==
    IF ~InRange(C, 0, 2) \/ ~InRange(C, 1, 2) \/ ~InRange(C, 2, 2)
    THEN Failed("gamma")
    ELSE LET d1 == RSub(s[<<0, 2>>], s[<<1, 2>>])
             d2 == RSub(s[<<1, 2>>], s[<<2, 2>>])
             d3 == RMul(<<1, 2>>, RSub(s[<<0, 2>>], s[<<2, 2>>]))
         IN  IF d1 = Zero \/ d2 = Zero
             THEN [name |-> "gamma", outcome |-> "nonfinite", val |-> Zero]
             ELSE Quot("gamma",
                       RSub(RDiv(RSub(C[<<0, 2>>], C[<<1, 2>>]), d1),
                            RDiv(RSub(C[<<1, 2>>], C[<<2, 2>>]), d2)), d3)

\* variant: indices wrapped around the axis instead of rejected
calculate_theta_wrapped(C, dtt) ==
    IF Dim(C) = 0 THEN Failed("theta")
    ELSE Quot("theta", RSub(C[<<1 % Dim(C), 2 % Dim(C)>>], C[<<0, 0>>]),
              RMul(R(2), dtt))
calculate_theta(C, dtt) ==
    IF ~InRange(C, 1, 2) \/ ~InRange(C, 0, 0) THEN Failed("theta")
    ELSE Quot("theta", RSub(C[<<1, 2>>], C[<<0, 0>>]), RMul(R(2), dtt))

(* ------------------------------ state --------------------------------- *)
VARIABLES
    p,        \* the arguments S0, K, T, r, sigma, otype, Q, M of the call
    fn,       \* which pricer is called
    pc,       \* "call", "loop", "returned" or "raised"
    err,      \* the exception raised, "none" if none
    df, q,    \* locals of the pricer
    oreturn,  \* local of the American pricer
    S, V,     \* the two lattices
    z,        \* number of iterations of the backward loop already run
    written,  \* history: the columns of V assigned by the loop, in order
    Vpad,     \* shadow run of the loop on V with other padding (row > column)
    greek     \* the result of the greek applied to the returned lattices

vars == <<p, fn, pc, err, df, q, oreturn, S, V, z, written, Vpad, greek>>

Params == [S0 : Spots, K : Strikes, T : Times, r : Rates, sigma : Sigmas,
           otype : {"call", "put"}, Q : Yields, M : StepCounts]

NoGreek == [name |-> "none", outcome |-> "none", val |-> Zero]

\* the lattice v with every padding cell (row > column) changed
Repad(v) == [c \in DOMAIN v |-> IF c[1] > c[2] THEN RAdd(v[c], R(1 + c[1]))
                                               ELSE v[c]]

Init ==
    /\ p \in Params
    /\ fn \in {"european", "american"}
    /\ pc = "call"
    /\ err = "none"
    /\ df = Zero /\ q = Zero
    /\ oreturn = Empty
    /\ S = Empty /\ V = Empty
    /\ z = 0
    /\ written = <<>>
    /\ Vpad = Empty
    /\ greek = NoGreek

(* ----------------------------- actions -------------------------------- *)
\* lines 29-56: the scalars, the stock lattice and the payoffs
EuropeanCall ==
    /\ pc = "call" /\ fn = "european"
    /\ IF Raises(p) # "none"
       THEN /\ pc' = "raised"
            /\ err' = Raises(p)
            /\ UNCHANGED <<df, q, S, V, Vpad>>
       ELSE /\ pc' = "loop"
            /\ df' = Calc_df(p)
            /\ q' = Calc_q(p)
            /\ S' = Calc_S(p)
            /\ V' = Calc_V(p)
            /\ Vpad' = Repad(Calc_V(p))
            /\ UNCHANGED err
    /\ UNCHANGED <<p, fn, oreturn, z, written, greek>>

\* lines 59-62: one iteration of the backward loop
EuropeanStep ==
    /\ pc = "loop" /\ fn = "european"
    /\ z < p.M
    /\ V' = EuropeanColumn(V, q, df, p.M, z)
    /\ Vpad' = EuropeanColumn(Vpad, q, df, p.M, z)
    /\ written' = Append(written, p.M - z - 1)
    /\ z' = z + 1
    /\ UNCHANGED <<p, fn, pc, err, df, q, oreturn, S, greek>>

\* line 63
EuropeanReturn ==
    /\ pc = "loop" /\ fn = "european"
    /\ z >= p.M
    /\ pc' = "returned"
    /\ UNCHANGED <<p, fn, err, df, q, oreturn, S, V, z, written, Vpad, greek>>

\* lines 68-99
AmericanCall ==
    /\ pc = "call" /\ fn = "american"
    /\ IF Raises(p) # "none"
       THEN /\ pc' = "raised"
            /\ err' = Raises(p)
            /\ UNCHANGED <<df, q, oreturn, S, V, Vpad>>
       ELSE /\ pc' = "loop"
            /\ df' = Calc_df(p)
            /\ q' = Calc_q(p)
            /\ S' = Calc_S(p)
            /\ V' = Calc_V(p)
            /\ oreturn' = Calc_oreturn(p)
            /\ Vpad' = Repad(Calc_V(p))
            /\ UNCHANGED err
    /\ UNCHANGED <<p, fn, z, written, greek>>

\* lines 102-108
AmericanStep ==
    /\ pc = "loop" /\ fn = "american"
    /\ z < p.M
    /\ V' = AmericanColumn(V, oreturn, q, df, p.M, z)
    /\ Vpad' = AmericanColumn(Vpad, oreturn, q, df, p.M, z)
    /\ written' = Append(written, p.M - z - 1)
    /\ z' = z + 1
    /\ UNCHANGED <<p, fn, pc, err, df, q, oreturn, S, greek>>

\* line 110
AmericanReturn ==
    /\ pc = "loop" /\ fn = "american"
    /\ z >= p.M
    /\ pc' = "returned"
    /\ UNCHANGED <<p, fn, err, df, q, oreturn, S, V, z, written, Vpad, greek>>

\* lines 112-113, applied to the returned lattices
Delta ==
    /\ pc = "returned" /\ greek = NoGreek
    /\ greek' = calculate_delta(V, S)
    /\ UNCHANGED <<p, fn, pc, err, df, q, oreturn, S, V, z, written, Vpad>>

\* lines 115-118
Gamma ==
    /\ pc = "returned" /\ greek = NoGreek
    /\ greek' = calculate_gamma(V, S)
    /\ UNCHANGED <<p, fn, pc, err, df, q, oreturn, S, V, z, written, Vpad>>

\* lines 123-124, with dt = T/M as on line 137
Theta ==
    /\ pc = "returned" /\ greek = NoGreek
    /\ greek' = calculate_theta(V, Calc_dt(p))
    /\ UNCHANGED <<p, fn, pc, err, df, q, oreturn, S, V, z, written, Vpad>>

Next ==
    \/ EuropeanCall \/ EuropeanStep \/ EuropeanReturn
    \/ AmericanCall \/ AmericanStep \/ AmericanReturn
    \/ Delta \/ Gamma \/ Theta

Spec == Init /\ [][Next]_vars

(* ------------------------------ claims -------------------------------- *)

\* C1 (as stated): for all valid parameters (S0 >= 0, K >= 0, T > 0,
\* sigma >= 0, M >= 1, any r and Q, q not restricted to (0,1)) the American
\* present value V[0,0] is at least the European V[0,0] for the same
\* parameters.
C1_AmericanAtLeastEuropean ==
    (/\ pc = "returned" /\ fn = "american"
     /\ p.S0 >= 0 /\ p.K >= 0 /\ p.T > 0 /\ p.sigma >= 0 /\ p.M >= 1)
    => RLeq(CRR_european_option_value(p).V[<<0, 0>>], V[<<0, 0>>])

\* C1 (amended): for all valid parameters whose branch probability q lies in
\* [0, 1], the American present value V[0,0] is at least the European
\* V[0,0] for the same parameters.
C1_AmericanAtLeastEuropeanArbitrageFree ==
    (/\ pc = "returned" /\ fn = "american"
     /\ p.S0 >= 0 /\ p.K >= 0 /\ p.T > 0 /\ p.sigma >= 0 /\ p.M >= 1
     /\ RLeq(Zero, q) /\ RLeq(q, One))
    => RLeq(CRR_european_option_value(p).V[<<0, 0>>], V[<<0, 0>>])

\* an American run with q in [0, 1] where early exercise adds value
C1_Witness ==
    /\ pc = "returned" /\ fn = "american"
    /\ p.S0 >= 0 /\ p.K >= 0 /\ p.T > 0 /\ p.sigma >= 0 /\ p.M >= 2
    /\ RLeq(Zero, q) /\ RLeq(q, One)
    /\ RLt(CRR_european_option_value(p).V[<<0, 0>>], V[<<0, 0>>])

\* C2: whenever M < 1, or T <= 0, or sigma < 0, the pricer ends in an error
\* and no lattice, not even a partial one, comes out of it.
C2_InvalidParametersRejected ==
    (p.M < 1 \/ p.T <= 0 \/ p.sigma < 0)
    => /\ pc \in {"call", "raised"}
       /\ V = Empty /\ S = Empty

\* C3: for any M >= 0 with T > 0 and sigma >= 0 (sigma = 0 included) the
\* lattice construction raises nothing and yields an (M+1) x (M+1) stock
\* lattice with S[0,0] = S0.
C3_ConstructionNeverFails ==
    (p.M >= 0 /\ p.T > 0 /\ p.sigma >= 0)
    => /\ pc # "raised"
       /\ pc \in {"loop", "returned"}
            => DOMAIN S = Idx(p.M + 1) /\ S[<<0, 0>>] = R(p.S0)

\* C4: on the lattices of a run with M < 2, calculate_gamma and
\* calculate_theta fail with an index error and return no value;
\* calculate_delta returns a value on the 2x2 lattices of an M = 1 run.
C4_GreekDepth ==
    /\ (greek.name \in {"gamma", "theta"} /\ p.M < 2)
          => greek.outcome = "IndexError"
    /\ (greek.name = "delta" /\ p.M = 1)
          => /\ greek.outcome \in {"value", "nonfinite"}
             /\ p.S0 > 0 => greek.outcome = "value"

\* gamma was applied to the 2x2 lattices of an M = 1 run
C4_Witness ==
    /\ pc = "returned" /\ p.M = 1 /\ DOMAIN V = Idx(2)
    /\ greek.name = "gamma" /\ greek.outcome = "IndexError"

\* C5: put-call parity of the European pricer: for the same S0, K, T, r,
\* sigma, Q and M, C[0,0] - P[0,0] = S0*e^(-Q*T) - K*e^(-r*T).
C5_PutCallParity ==
    (pc = "returned" /\ fn = "european" /\ p.otype = "call" /\ p.M >= 1)
    => RSub(V[<<0, 0>>],
            CRR_european_option_value([p EXCEPT !.otype = "put"]).V[<<0, 0>>])
       = RSub(RMul(R(p.S0), Exp2(-(QDt(p) * p.M))),
              RMul(R(p.K), Exp2(-(RDt(p) * p.M))))

\* a European call run with dividends where call and put are both worth
\* something
C5_Witness ==
    /\ pc = "returned" /\ fn = "european" /\ p.otype = "call" /\ p.M >= 2
    /\ p.Q # 0 /\ p.r # 0
    /\ V[<<0, 0>>] # Zero
    /\ CRR_european_option_value([p EXCEPT !.otype = "put"]).V[<<0, 0>>] # Zero

\* C6: in the European V-lattice the terminal column is the payoff
\* max(S-K, 0) or max(K-S, 0), and every earlier node of the triangle is
\* df*(q*V[i,j+1] + (1-q)*V[i+1,j+1]), with no exercise comparison.
C6_EuropeanLattice ==
    (pc = "returned" /\ fn = "european" /\ p.M >= 1)
    => /\ \A i \in 0..p.M :
            V[<<i, p.M>>] =
              IF p.otype = "call"
              THEN RMax(RSub(S[<<i, p.M>>], R(p.K)), Zero)
              ELSE RMax(RSub(R(p.K), S[<<i, p.M>>]), Zero)
       /\ \A j \in 0..(p.M - 1) : \A i \in 0..j :
            V[<<i, j>>] =
              RMul(df, RAdd(RMul(q, V[<<i, j + 1>>]),
                            RMul(RSub(One, q), V[<<i + 1, j + 1>>])))

\* a European run of at least two steps with a nonzero present value and
\* an asymmetric q
C6_Witness ==
    /\ pc = "returned" /\ fn = "european" /\ p.M >= 2
    /\ V[<<0, 0>>] # Zero /\ q # <<1, 2>> /\ df # One

\* C7: in the American V-lattice every node with i <= j < M is
\* max(df*(q*V[i,j+1] + (1-q)*V[i+1,j+1]), X[j]), where X[j] is
\* S0*exp(r*dt)^j - K for a call and K - S0*exp(r*dt)^j for a put (target
\* column j, whatever the row); the terminal column is the plain payoff.
C7_AmericanLattice ==
    (pc = "returned" /\ fn = "american" /\ p.M >= 1)
    => /\ \A i \in 0..p.M :
            V[<<i, p.M>>] =
              IF p.otype = "call"
              THEN RMax(RSub(S[<<i, p.M>>], R(p.K)), Zero)
              ELSE RMax(RSub(R(p.K), S[<<i, p.M>>]), Zero)
       /\ \A j \in 0..(p.M - 1) : \A i \in 0..j :
            LET cont == RMul(df, RAdd(RMul(q, V[<<i, j + 1>>]),
                                      RMul(RSub(One, q), V[<<i + 1, j + 1>>])))
                E == RMul(R(p.S0), RPow(Exp2(RDt(p)), j))
                X == IF p.otype = "call" THEN RSub(E, R(p.K))
                                         ELSE RSub(R(p.K), E)
            IN  V[<<i, j>>] = RMax(cont, X)

\* an American run where, at a node off the top row, exercise beats
\* continuation, and the exercise value differs from column to column
C7_Witness ==
    /\ pc = "returned" /\ fn = "american" /\ p.M >= 2 /\ p.r # 0 /\ p.S0 > 0
    /\ \E j \in 1..(p.M - 1) : \E i \in 1..j :
          RLt(RMul(df, RAdd(RMul(q, V[<<i, j + 1>>]),
                            RMul(RSub(One, q), V[<<i + 1, j + 1>>]))),
              V[<<i, j>>])

\* C8: the backward induction is strictly right-to-left: the columns are
\* written in the order M-1, ..., 0, each once; when a column is written
\* every column to its right holds its final value and is not modified
\* afterwards; the loop ends after M steps with V[0,0] the present value.
C8_Order ==
    /\ Len(written) = z
    /\ \A k \in 1..Len(written) : written[k] = p.M - k
    /\ pc \in {"loop", "returned"} =>
         \A c \in DOMAIN V :
            c[2] >= p.M - z =>
               V[c] = (IF fn = "european" THEN CRR_european_option_value(p)
                                          ELSE CRR_american_option_value(p)).V[c]
    /\ (pc = "returned" /\ p.M >= 0) => z = p.M

C8_StepFrame ==
    (pc = "loop" /\ z' # z)
    => /\ z' = z + 1
       /\ written' = Append(written, p.M - z - 1)
       /\ \A c \in DOMAIN V : c[2] # p.M - z - 1 => V'[c] = V[c]

C8_RightToLeft == []C8_Order /\ [][C8_StepFrame]_vars

\* a three-step run has written columns 2, 1, 0 in that order
C8_Witness ==
    /\ pc = "returned" /\ p.M = 3 /\ written = <<2, 1, 0>>
    /\ V # Calc_V(p)

\* C9: every induction step leaves S and the terminal column of V unchanged
\* and writes only the cells V[i,j], 0 <= i <= j, of its column j; the
\* returned S is S0*u^(j-i)*d^i on the triangle.
C9_Triangle ==
    pc \in {"loop", "returned"} =>
       \A c \in DOMAIN S :
          c[1] <= c[2] =>
             S[c] = RMul(RMul(R(p.S0), RPow(Exp2(SigmaSqrtDt(p)), c[2] - c[1])),
                         RPow(RInv(Exp2(SigmaSqrtDt(p))), c[1]))

C9_StepWrites ==
    pc = "loop" =>
       /\ S' = S
       /\ \A c \in DOMAIN V :
            V'[c] # V[c] => c[2] = p.M - z - 1 /\ c[1] <= c[2] /\ c[2] < p.M

C9_Frame == []C9_Triangle /\ [][C9_StepWrites]_vars

\* a run of at least two steps whose induction changed the value lattice
C9_Witness ==
    /\ pc = "returned" /\ p.M >= 2 /\ p.S0 > 0
    /\ \E i \in 0..(p.M - 1) : V[<<i, p.M - 1>>] # Calc_V(p)[<<i, p.M - 1>>]

\* C10: the cells with row > column are never written and keep their initial
\* payoff, and the values on the triangle (row <= column) are the same
\* whatever the cells with row > column hold.
C10_PaddingIrrelevant ==
    pc \in {"loop", "returned"} =>
       /\ DOMAIN Vpad = DOMAIN V
       /\ \A c \in DOMAIN V :
            /\ c[1] > c[2] => V[c] = Payoff(p, S[c]) /\ Vpad[c] # V[c]
            /\ c[1] <= c[2] => Vpad[c] = V[c]

\* a finished run of at least two steps with a nonzero present value, whose
\* second branch weight 1-q is not zero
C10_Witness ==
    /\ pc = "returned" /\ p.M >= 2 /\ q # One
    /\ V[<<0, 0>>] # Zero
    /\ Vpad # V

====
